---- MODULE Spec2Model ----
(***************************************************************************)
(* Model of the SMB backup replication engine of next-bruss-cron:          *)
(*   - the persisted lock coordinator   (lib/synology-lock.js)             *)
(*   - the run orchestrators backupLv2 / backupLv1                         *)
(* The collection cron_smb_backup_jobs is the sequence `jobs`; a record's  *)
(* position in the sequence is its _id (records are never deleted).        *)
(* Every action is one awaited database / network operation together with  *)
(* the synchronous code that follows it up to the next await.              *)
(***************************************************************************)
EXTENDS Integers, Sequences, FiniteSets, TLC

VARIABLES
    jobs,   \* the cron_smb_backup_jobs collection, in insertion order
    now,    \* Date.now() in milliseconds
    run,    \* one record per invocation slot (call frame of a run)
    conn,   \* the call frame of connectToSynologyWithFailover
    srcFs,  \* the files of the source share, by path
    dstFs,  \* the directories and files of the target share, by path
    sync,   \* the call stack of copyDirectoryRecursive and its outcome
    status, \* the StatusCollector singleton and its summary being sent
    errs    \* the ErrorCollector singleton and its notifications being sent

vars == <<jobs, now, run, conn, srcFs, dstFs, sync, status, errs>>

\* the state of lib/smb-helpers.js, which the lock and the orchestrators of
\* this model leave alone
smbVars == <<conn, srcFs, dstFs, sync>>

\* the state of lib/status-collector.js and lib/error-collector.js, which
\* the lock, the orchestrators and the helpers of this model leave alone
collVars == <<status, errs>>

----------------------------------------------------------------------------
(* Bounds                                                                  *)

NumRuns == 2          \* invocation slots (each executes at most one run)
MaxOverlap == 2       \* invocations in progress at the same time
MaxExtra == 1         \* milliseconds explored after MaxAge
MaxUnset == 1         \* settings of process.env that are not set
MaxCalls == 2         \* calls of copyDirectoryRecursive
MaxMods == 1          \* modifications of source files by third parties
MaxTime == 2          \* clock values explored while synchronizing
MaxAdds == 2          \* entries added to a collector
MaxSends == 2         \* runs of a collector's send

Runs == 1 .. NumRuns

Sends == 1 .. MaxSends

----------------------------------------------------------------------------
(* Program constants                                                       *)

STALE_JOB_HOURS == 24
MaxAge == STALE_JOB_HOURS * 60 * 60 * 1000

maxExecutions == 2000 \* StatusCollector: this.maxExecutions
maxErrors == 1000     \* ErrorCollector: this.maxErrors

NoIp == "none"        \* null host
NoErr == "none"       \* null error
NoTime == -1          \* null date
NoJob == 0            \* no document

H1 == "H1"            \* value of SYNOLOGY_BACKUP_IP_PRIMARY when set
H2 == "H2"            \* value of SYNOLOGY_BACKUP_IP_SECONDARY when set

BackupNames == {"backupLv1", "backupLv2"}

ErrStaleNoExec == "No backup execution - marked as stale"
ErrStaleMaxRuntime == "Job exceeded maximum runtime and was marked as stale"
ErrCaller == "caller error"
ErrCfgSynology == "Missing Synology configuration in environment variables"
ErrCfgSource == "Missing source configuration in environment variables"
ErrCfgTarget == "Missing target configuration in environment variables"
ErrSourceConnect == "source connect failed"
ErrAllTargetsFailed == "Failed to connect to any SMB server"
ErrListFiles == "listing the source root failed"

Lv2Directories == <<"DB_Backup", "ST61", "ST151">>

----------------------------------------------------------------------------
(* process.env                                                             *)

Undefined == "undefined"
Empty == "empty"
Set == "set"

Settings ==
    {"SYNOLOGY_IP_PRIMARY", "SYNOLOGY_IP_SECONDARY", "SYNOLOGY_USER",
     "SYNOLOGY_PASS", "SOURCE_IP", "SOURCE_SHARE", "SOURCE_PATH",
     "SOURCE_USER", "SOURCE_PASS", "TARGET_SHARE", "TARGET_PATH"}

FullEnv == [s \in Settings |-> Set]

\* the environments in which at most k settings are not set
RECURSIVE EnvsUpTo(_)
EnvsUpTo(k) ==
    IF k = 0 THEN {FullEnv}
    ELSE LET P == EnvsUpTo(k - 1) IN
         P \cup {[e EXCEPT ![s] = v] :
                    e \in P, s \in Settings, v \in {Undefined, Empty}}

Envs == EnvsUpTo(MaxUnset)

\* JavaScript `!value` for a string-or-undefined value
Falsy(v) == v \in {Undefined, Empty}

----------------------------------------------------------------------------
(* Lock store helpers                                                      *)

JobIds == 1 .. Len(jobs)

LastJobsMut(name) ==
    {i \in JobIds : \A j \in JobIds : jobs[j].startedAt <= jobs[i].startedAt}
\* find({backupName}).sort({startedAt: -1}).limit(1): the candidates for the
\* single document returned (the order among equal startedAt is unspecified)
LastJobs(name) ==
    {i \in JobIds :
        /\ jobs[i].backupName = name
        /\ \A j \in JobIds :
              jobs[j].backupName = name => jobs[j].startedAt <= jobs[i].startedAt}

IsStaleMut(jobAge) == jobAge >= MaxAge
\* jobAge > maxAge
IsStale(jobAge) == jobAge > MaxAge

JobCountMut(ip) == Cardinality({i \in JobIds : jobs[i].status = "running"})
\* find({status: 'running', ip: {$in: ips}}) counted per ip
JobCount(ip) ==
    Cardinality({i \in JobIds : jobs[i].status = "running" /\ jobs[i].ip = ip})

RECURSIVE LeastBusyFrom(_, _, _, _)
LeastBusyFrom(ips, k, selectedIp, minCount) ==
    IF k > Len(ips) THEN selectedIp
    ELSE IF JobCount(ips[k]) < minCount
         THEN LeastBusyFrom(ips, k + 1, ips[k], JobCount(ips[k]))
         ELSE LeastBusyFrom(ips, k + 1, selectedIp, minCount)

selectLeastBusyIp(ips) == LeastBusyFrom(ips, 1, ips[1], JobCount(ips[1]))

\* documents matched by the filter {backupName, status: 'running'}
RunningJobs(name) ==
    {i \in JobIds : jobs[i].backupName = name /\ jobs[i].status = "running"}

NewJob(name, ip) ==
    [backupName |-> name, ip |-> ip, startedAt |-> now, completedAt |-> NoTime,
     status |-> "running", error |-> NoErr]

StaleUpdateMut(doc, snapCompletedAt, t) ==
    [doc EXCEPT !.completedAt = IF snapCompletedAt # NoTime THEN snapCompletedAt ELSE t,
                !.error = ErrStaleNoExec]
\* $set of isBackupRunning: completedAt: job.completedAt || new Date()
StaleUpdate(doc, snapCompletedAt, t) ==
    [doc EXCEPT !.status = "failed",
                !.completedAt = IF snapCompletedAt # NoTime THEN snapCompletedAt ELSE t,
                !.error = ErrStaleNoExec]

----------------------------------------------------------------------------
(* Invocation slots                                                        *)

IdleRun ==
    [kind |-> "none", name |-> "none", pc |-> "idle", ips |-> <<>>,
     lockedIp |-> NoIp, job |-> NoJob, jobStatus |-> "none",
     jobCompletedAt |-> NoTime, findTime |-> NoTime, selectedIp |-> NoIp,
     usedIp |-> NoIp,
     error |-> NoErr, result |-> "none",
     \* history of the run, for stating properties
     cfgMissing |-> FALSE, myJob |-> NoJob, reclaimed |-> NoJob,
     releaseCalls |-> 0, failCalls |-> 0,
     sessions |-> 0, copied |-> FALSE,
     touchedLock |-> FALSE, wroteLock |-> FALSE,
     \* history: the host acquireLock returned answered when the run
     \* connected to the target
     lockedUp |-> FALSE,
     \* the result object built by backupLv2 after its loop, until the run
     \* is over
     report |-> [kind |-> "none"]]

\* The source tree that is synchronized: the root holds the file a and the
\* directory d, d holds the file b and the directory e, e holds the file c.
\* A path names the same entry below sourcePath and below targetPath.
Root == "."
Dirs == {Root, "d", "d/e"}
Files == {"a", "d/b", "d/e/c"}
Paths == Dirs \cup Files

\* readdir order of the entries of each directory
Children ==
    [p \in Dirs |->
        CASE p = Root -> <<"a", "d">>
          [] p = "d" -> <<"d/b", "d/e">>
          [] p = "d/e" -> <<"d/e/c">>]

NoFile == [kind |-> "none"]
Dir == [kind |-> "dir"]
File(ver, mtime) == [kind |-> "file", ver |-> ver, mtime |-> mtime]

\* content.length of version `ver` of the file at path p
ContentLength(p, ver) ==
    (CASE p = "a" -> 10 [] p = "d/b" -> 20 [] p = "d/e/c" -> 30) + (ver - 1)

\* let copiedFiles = 0; let skippedFiles = 0; let totalBytes = 0;
ZeroStats == [copiedFiles |-> 0, skippedFiles |-> 0, totalBytes |-> 0]

\* no call of connectToSynologyWithFailover is in progress
IdleConn ==
    [pc |-> "idle", ips |-> <<>>, k |-> 0, lastError |-> NoErr,
     connectedIp |-> NoIp, error |-> NoErr,
     \* history: the hosts contacted and what each attempt gave, in order
     attempts |-> <<>>]

\* no call of copyDirectoryRecursive is in progress
NoEntry == [outcome |-> "none"]

IdleSync ==
    [pc |-> "idle", stack |-> <<>>, stats |-> ZeroStats, threw |-> FALSE,
     \* history, for stating properties: the calls made, what the current
     \* call did with each file, whether an operation failed in it, whether
     \* a directory could not be entered and whether the source was modified
     \* since it began; the same for the call before it; the modifications
     \* of the source made so far
     calls |-> 0, log |-> [p \in Files |-> NoEntry],
     faulty |-> FALSE, dirFailed |-> FALSE, dirty |-> FALSE,
     prev |-> ZeroStats, prevFaulty |-> FALSE, prevDirty |-> FALSE,
     mods |-> 0]

\* a run of sendStatusSummary or of sendBatchNotification not yet started
IdleSend == [pc |-> "idle"]

\* new StatusCollector(): no executions, no summary sent yet
IdleStatus ==
    [jobExecutions |-> <<>>, lastSummarySentAt |-> NoTime,
     sends |-> [s \in Sends |-> IdleSend],
     \* history, for stating properties: the executions added so far and
     \* those that were part of a summary the mailer accepted
     added |-> 0, delivered |-> {}]

\* new ErrorCollector(): no errors. this.errors is represented by its
\* length: the code under study never looks into an entry
IdleErrs ==
    [errors |-> 0, sends |-> [s \in Sends |-> IdleSend],
     \* history: the calls of addError made so far
     added |-> 0]

\* a share on which nothing exists
EmptyFs == [p \in Paths |-> NoFile]

Init ==
    /\ jobs = <<>>
    /\ now = 0
    /\ run = [r \in Runs |-> IdleRun]
    /\ conn = IdleConn
    /\ srcFs = EmptyFs
    /\ dstFs = EmptyFs
    /\ sync = IdleSync
    /\ status = IdleStatus
    /\ errs = IdleErrs

\* the clock values explored: 0, and MaxAge plus at most MaxExtra milliseconds
ClockValue(t) == t = 0 \/ (MaxAge <= t /\ t <= MaxAge + MaxExtra)

\* the clock advances, by one millisecond or by the staleness threshold
Tick ==
    /\ \E d \in {1, MaxAge} :
          /\ ClockValue(now + d)
          /\ now' = now + d
    /\ UNCHANGED <<jobs, run>>
    /\ UNCHANGED smbVars
    /\ UNCHANGED collVars

----------------------------------------------------------------------------
(* lib/synology-lock.js                                                    *)

FinallyReleasesMut(lockedIp) == TRUE
\* finally { if (lockedIp) ... } of backupLv2
FinallyReleases(lockedIp) == lockedIp # NoIp

\* The frame of a backupLv2 run leaving its try block with the given result
\* and thrown error: the finally clause either awaits releaseLock or the
\* run is over.
LeaveTry(f, result, error) ==
    [f EXCEPT !.result = result, !.error = error, !.ips = <<>>,
              !.lockedUp = FALSE,
              !.pc = IF FinallyReleases(f.lockedIp) THEN "finRelease" ELSE "done"]

\* acquireLock returns `ip` (NoIp for null) to its caller; the locals of
\* acquireLock and isBackupRunning are gone
AcquireReturns(f, ip) ==
    LET g == [f EXCEPT !.lockedIp = ip, !.job = NoJob, !.jobStatus = "none",
                       !.selectedIp = NoIp]
    IN  IF f.kind = "backupLv2"
        THEN IF ip = NoIp
             THEN LeaveTry(g, "skipped", NoErr)
             ELSE [g EXCEPT !.pc = "connectSource"]
        ELSE [g EXCEPT !.pc = "returned", !.ips = <<>>,
                       !.result = IF ip = NoIp THEN "null" ELSE "host"]

ActivePcs ==
    {"acqFind", "acqStale", "acqCount", "acqInsert", "connectSource",
     "connectTarget", "sync", "finRelease"}

\* the scheduler (or an operator) may invoke a run in slot r; the slots are
\* interchangeable and are taken in order
CanStart(r) ==
    /\ run[r].pc = "idle"
    /\ \A q \in Runs : q < r => run[q].pc # "idle"
    /\ Cardinality({q \in Runs : run[q].pc \in ActivePcs}) < MaxOverlap

\* a caller other than the orchestrators calls acquireLock(name, ips)
CallAcquire(r) ==
    /\ CanStart(r)
    /\ \E name \in BackupNames, ips \in {<<H1>>, <<H1, H2>>} :
          run' = [run EXCEPT ![r] =
                    [@ EXCEPT !.kind = "acquire", !.name = name, !.ips = ips,
                              !.pc = "acqFind"]]
    /\ UNCHANGED <<jobs, now>>
    /\ UNCHANGED smbVars
    /\ UNCHANGED collVars

\* isBackupRunning: the find of the most recent job and the decision on it
AcqFind(r) ==
    /\ run[r].pc = "acqFind"
    /\ LET f == [run[r] EXCEPT !.touchedLock = TRUE] IN
       IF LastJobs(f.name) = {}
       THEN run' = [run EXCEPT ![r] = [f EXCEPT !.pc = "acqCount"]]
       ELSE \E j \in LastJobs(f.name) :
              LET job == jobs[j]
                  jobAge == now - job.startedAt
                  g == [f EXCEPT !.job = j, !.jobStatus = job.status]
              IN  run' = [run EXCEPT ![r] =
                     IF IsStale(jobAge)
                     THEN [g EXCEPT !.pc = "acqStale",
                                    !.jobCompletedAt = job.completedAt,
                                    !.findTime = now]
                     ELSE IF job.status = "running"
                          THEN AcquireReturns(g, NoIp)
                          ELSE [g EXCEPT !.pc = "acqCount"]]
    /\ UNCHANGED <<jobs, now>>
    /\ UNCHANGED smbVars
    /\ UNCHANGED collVars

\* isBackupRunning: updateOne({_id: job._id}, {$set: {status: 'failed', ...}})
AcqStale(r) ==
    /\ run[r].pc = "acqStale"
    /\ jobs' = [jobs EXCEPT ![run[r].job] =
                  StaleUpdate(@, run[r].jobCompletedAt, run[r].findTime)]
    /\ run' = [run EXCEPT ![r] =
                 [@ EXCEPT !.pc = "acqCount", !.wroteLock = TRUE,
                           !.reclaimed = IF run[r].jobStatus = "running"
                                         THEN run[r].job ELSE NoJob,
                           !.jobCompletedAt = NoTime, !.findTime = NoTime]]
    /\ UNCHANGED now
    /\ UNCHANGED smbVars
    /\ UNCHANGED collVars

\* selectLeastBusyIp(ips); the second getJobCountsPerIp(ips) that follows
\* it only feeds the log line and is not a step of its own
AcqCount(r) ==
    /\ run[r].pc = "acqCount"
    /\ run' = [run EXCEPT ![r] =
                 [@ EXCEPT !.pc = "acqInsert",
                           !.selectedIp = selectLeastBusyIp(run[r].ips)]]
    /\ UNCHANGED <<jobs, now>>
    /\ UNCHANGED smbVars
    /\ UNCHANGED collVars

\* insertOne({... status: 'running' ...}); return selectedIp
AcqInsert(r) ==
    /\ run[r].pc = "acqInsert"
    /\ jobs' = Append(jobs, NewJob(run[r].name, run[r].selectedIp))
    /\ run' = [run EXCEPT ![r] =
                 AcquireReturns([@ EXCEPT !.myJob = Len(jobs) + 1,
                                          !.wroteLock = TRUE],
                                run[r].selectedIp)]
    /\ UNCHANGED now
    /\ UNCHANGED smbVars
    /\ UNCHANGED collVars

\* $set of releaseLock (result is not modelled: backupLv2 passes none)
CompletedDoc(doc, t) == [doc EXCEPT !.status = "completed", !.completedAt = t]

\* $set of markJobAsFailed
FailedDoc(doc, t, message) ==
    [doc EXCEPT !.status = "failed", !.completedAt = t, !.error = message]

\* updateOne({backupName, status: 'running'}, ...): the collections that can
\* result (one matching document is updated; which one is unspecified)
ReleaseOutcomes(name) ==
    IF RunningJobs(name) = {} THEN {jobs}
    ELSE {[jobs EXCEPT ![i] = CompletedDoc(@, now)] : i \in RunningJobs(name)}

MarkFailedOutcomes(name, message) ==
    IF RunningJobs(name) = {} THEN {jobs}
    ELSE {[jobs EXCEPT ![i] = FailedDoc(@, now, message)] : i \in RunningJobs(name)}

\* releaseLock(ip, backupName) called by any caller. A call without a
\* backupName (the old API, only an ip given) returns at once and a call
\* that matches no running record updates nothing: both leave the state as
\* it is, and only the calls that update a record are steps.
ReleaseLock ==
    /\ \E name \in BackupNames :
          /\ RunningJobs(name) # {}
          /\ jobs' \in ReleaseOutcomes(name)
    /\ UNCHANGED <<now, run>>
    /\ UNCHANGED smbVars
    /\ UNCHANGED collVars

\* markJobAsFailed(backupName, error) called by any caller (a call that
\* matches no running record leaves the state as it is)
MarkJobAsFailed ==
    /\ \E name \in BackupNames :
          /\ RunningJobs(name) # {}
          /\ jobs' \in MarkFailedOutcomes(name, ErrCaller)
    /\ UNCHANGED <<now, run>>
    /\ UNCHANGED smbVars
    /\ UNCHANGED collVars

CleanupMatchesMut(doc) == doc.startedAt < now - MaxAge
\* the filter {status: 'running', startedAt: {$lt: staleThreshold}}
CleanupMatches(doc) == doc.status = "running" /\ doc.startedAt < now - MaxAge

\* cleanupStaleLocks(): updateMany({status: 'running', startedAt: {$lt: ...}})
CleanupStaleLocks ==
    /\ \E i \in JobIds : CleanupMatches(jobs[i])
    /\ jobs' = [i \in JobIds |->
                  IF CleanupMatches(jobs[i])
                  THEN FailedDoc(jobs[i], now, ErrStaleMaxRuntime)
                  ELSE jobs[i]]
    /\ UNCHANGED <<now, run>>
    /\ UNCHANGED smbVars
    /\ UNCHANGED collVars

NextLock ==
    \/ Tick
    \/ \E r \in Runs : CallAcquire(r)
    \/ \E r \in Runs : AcqFind(r)
    \/ \E r \in Runs : AcqStale(r)
    \/ \E r \in Runs : AcqCount(r)
    \/ \E r \in Runs : AcqInsert(r)
    \/ ReleaseLock
    \/ MarkJobAsFailed
    \/ CleanupStaleLocks

SpecLock == Init /\ [][NextLock]_vars

----------------------------------------------------------------------------
(* The run orchestrators backupLv2 and backupLv1                           *)
(* A run reads the settings of its own backup from process.env when it     *)
(* starts.                                                                 *)

\* the settings each backup requires to be defined
RequiredLv2 ==
    {"SYNOLOGY_IP_PRIMARY", "SYNOLOGY_USER", "SYNOLOGY_PASS", "SOURCE_IP",
     "SOURCE_SHARE", "SOURCE_PATH", "SOURCE_USER", "SOURCE_PASS",
     "TARGET_SHARE", "TARGET_PATH"}
RequiredLv1 == RequiredLv2 \ {"SOURCE_PATH"}

\* history: a required setting is missing from the environment
RequiredMissing(required, e) == \E s \in required : e[s] = Undefined

ValidateLv2Mut(e) ==
    IF Falsy(e["SYNOLOGY_IP_PRIMARY"]) \/ Falsy(e["SYNOLOGY_USER"])
          \/ Falsy(e["SYNOLOGY_PASS"])
    THEN ErrCfgSynology
    ELSE IF Falsy(e["SOURCE_IP"]) \/ Falsy(e["SOURCE_SHARE"])
               \/ Falsy(e["SOURCE_USER"]) \/ Falsy(e["SOURCE_PASS"])
    THEN ErrCfgSource
    ELSE IF Falsy(e["TARGET_SHARE"]) \/ e["TARGET_PATH"] = Undefined
    THEN ErrCfgTarget
    ELSE NoErr
\* "Validate configuration" of backupLv2: the error thrown, or NoErr
ValidateLv2(e) ==
    IF Falsy(e["SYNOLOGY_IP_PRIMARY"]) \/ Falsy(e["SYNOLOGY_USER"])
          \/ Falsy(e["SYNOLOGY_PASS"])
    THEN ErrCfgSynology
    ELSE IF Falsy(e["SOURCE_IP"]) \/ Falsy(e["SOURCE_SHARE"])
               \/ Falsy(e["SOURCE_PATH"])
               \/ Falsy(e["SOURCE_USER"]) \/ Falsy(e["SOURCE_PASS"])
    THEN ErrCfgSource
    ELSE IF Falsy(e["TARGET_SHARE"]) \/ e["TARGET_PATH"] = Undefined
    THEN ErrCfgTarget
    ELSE NoErr

\* "Validate configuration" of backupLv1 (it has no source path setting)
ValidateLv1(e) ==
    IF Falsy(e["SYNOLOGY_IP_PRIMARY"]) \/ Falsy(e["SYNOLOGY_USER"])
          \/ Falsy(e["SYNOLOGY_PASS"])
    THEN ErrCfgSynology
    ELSE IF Falsy(e["SOURCE_IP"]) \/ Falsy(e["SOURCE_SHARE"])
               \/ Falsy(e["SOURCE_USER"]) \/ Falsy(e["SOURCE_PASS"])
    THEN ErrCfgSource
    ELSE IF Falsy(e["TARGET_SHARE"]) \/ e["TARGET_PATH"] = Undefined
    THEN ErrCfgTarget
    ELSE NoErr

\* "Build list of Synology IPs"
SynologyIps(e) ==
    IF Falsy(e["SYNOLOGY_IP_SECONDARY"]) THEN <<H1>> ELSE <<H1, H2>>

\* a backupLv1 run leaves its try block (it has no finally clause)
LeaveLv1(f, result, error) ==
    [f EXCEPT !.result = result, !.error = error, !.ips = <<>>,
              !.usedIp = NoIp, !.pc = "done"]

\* an error is thrown out of the try block of the run
Throw(f, error) ==
    IF f.kind = "backupLv2" THEN LeaveTry(f, "error", error)
    ELSE LeaveLv1(f, "error", error)

\* backupLv2() is invoked: configuration, validation, list of ips
StartLv2(r) ==
    /\ CanStart(r)
    /\ \E e \in Envs :
          LET f == [run[r] EXCEPT !.kind = "backupLv2", !.name = "backupLv2",
                                  !.cfgMissing = RequiredMissing(RequiredLv2, e)]
          IN  run' = [run EXCEPT ![r] =
                 IF ValidateLv2(e) # NoErr
                 THEN Throw(f, ValidateLv2(e))
                 ELSE [f EXCEPT !.ips = SynologyIps(e), !.pc = "acqFind"]]
    /\ UNCHANGED <<jobs, now>>
    /\ UNCHANGED smbVars
    /\ UNCHANGED collVars

\* backupLv1() is invoked: configuration and validation; it takes no lock
StartLv1(r) ==
    /\ CanStart(r)
    /\ \E e \in Envs :
          LET f == [run[r] EXCEPT !.kind = "backupLv1", !.name = "backupLv1",
                                  !.cfgMissing = RequiredMissing(RequiredLv1, e)]
          IN  run' = [run EXCEPT ![r] =
                 IF ValidateLv1(e) # NoErr
                 THEN Throw(f, ValidateLv1(e))
                 ELSE [f EXCEPT !.ips = SynologyIps(e), !.pc = "connectSource"]]
    /\ UNCHANGED <<jobs, now>>
    /\ UNCHANGED smbVars
    /\ UNCHANGED collVars

\* connectToSourceSmb: open the session and list the share root
ConnectSource(r) ==
    /\ run[r].pc = "connectSource"
    /\ LET f == run[r] IN
       \E ok \in BOOLEAN :
          run' = [run EXCEPT ![r] =
                    IF ok
                    THEN [f EXCEPT !.sessions = @ + 1, !.pc = "connectTarget"]
                    ELSE Throw(f, ErrSourceConnect)]
    /\ UNCHANGED <<jobs, now>>
    /\ UNCHANGED smbVars
    /\ UNCHANGED collVars

\* connectToSynologyWithFailover(ips, ...) when exactly the hosts in `up`
\* answer: the hosts are tried in order from position k; the result is the
\* host connected to (NoIp when the function throws) and the hosts attempted
RECURSIVE FailoverFrom(_, _, _, _)
FailoverFrom(ips, up, k, attempted) ==
    IF k > Len(ips) THEN [connectedIp |-> NoIp, attempted |-> attempted]
    ELSE IF ips[k] \in up
         THEN [connectedIp |-> ips[k], attempted |-> Append(attempted, ips[k])]
         ELSE FailoverFrom(ips, up, k + 1, Append(attempted, ips[k]))

connectToSynologyWithFailover(ips, up) == FailoverFrom(ips, up, 1, <<>>)

\* the run awaits connectToSynologyWithFailover(synologyIps, ...)
ConnectTarget(r) ==
    /\ run[r].pc = "connectTarget"
    /\ \E up \in SUBSET {H1, H2} :
          LET f == run[r]
              c == connectToSynologyWithFailover(f.ips, up)
          IN  run' = [run EXCEPT ![r] =
                 IF c.connectedIp # NoIp
                 THEN [f EXCEPT !.sessions = @ + 1, !.usedIp = c.connectedIp,
                                !.ips = <<>>, !.pc = "sync",
                                !.lockedUp = f.lockedIp \in up]
                 ELSE Throw(f, ErrAllTargetsFailed)]
    /\ UNCHANGED <<jobs, now>>
    /\ UNCHANGED smbVars
    /\ UNCHANGED collVars

NoReport == [kind |-> "none"]

\* dirError.message of a subtree whose synchronization threw
ErrDirectory == "directory could not be created or listed"

\* what copyDirectoryRecursive does for one configured subtree: it throws,
\* or it returns stats (one of the values it can return is explored)
SubtreeStats ==
    {[copiedFiles |-> 2, skippedFiles |-> 1, totalBytes |-> 30]}

DirOutcomes ==
    {[threw |-> TRUE, stats |-> ZeroStats]}
        \cup {[threw |-> FALSE, stats |-> st] : st \in SubtreeStats}

\* directoryStats[dir] in the try and in the catch of the loop body
DirEntry(dir, o) ==
    IF o.threw
    THEN [dir |-> dir, copiedFiles |-> 0, skippedFiles |-> 0, totalFiles |-> 0,
          bytes |-> 0, error |-> ErrDirectory]
    ELSE [dir |-> dir, copiedFiles |-> o.stats.copiedFiles,
          skippedFiles |-> o.stats.skippedFiles,
          totalFiles |-> o.stats.copiedFiles + o.stats.skippedFiles,
          bytes |-> o.stats.totalBytes, error |-> NoErr]

AddTotalsMut(acc, o) ==
    [acc EXCEPT !.copiedFiles = @ + o.stats.copiedFiles,
                !.skippedFiles = @ + o.stats.skippedFiles,
                !.totalBytes = o.stats.totalBytes]
\* totalCopiedFiles += ...; totalSkippedFiles += ...; totalBytes += ...
AddTotals(acc, o) ==
    [acc EXCEPT !.copiedFiles = @ + o.stats.copiedFiles,
                !.skippedFiles = @ + o.stats.skippedFiles,
                !.totalBytes = @ + o.stats.totalBytes]

\* for (const dir of directories): the iterations from the k-th on, when
\* copyDirectoryRecursive does outcomes[i] for the i-th directory
RECURSIVE SyncDirectories(_, _, _)
SyncDirectories(k, outcomes, acc) ==
    IF k > Len(Lv2Directories) THEN acc
    ELSE LET o == outcomes[k]
             a == [acc EXCEPT !.directoryStats =
                        Append(@, DirEntry(Lv2Directories[k], o))]
         IN  SyncDirectories(k + 1, outcomes,
                             IF o.threw THEN a ELSE AddTotals(a, o))

\* const result = { ... } of backupLv2
Lv2Result(f, outcomes) ==
    LET acc == SyncDirectories(1, outcomes,
                   [copiedFiles |-> 0, skippedFiles |-> 0, totalBytes |-> 0,
                    directoryStats |-> <<>>])
    IN  [kind |-> "result", backupName |-> "LV2_Zasoby",
         copiedFiles |-> acc.copiedFiles, skippedFiles |-> acc.skippedFiles,
         totalFiles |-> acc.copiedFiles + acc.skippedFiles,
         totalBytes |-> acc.totalBytes, synologyIp |-> f.usedIp,
         directoryStats |-> acc.directoryStats,
         \* history: what copyDirectoryRecursive did for each directory
         outcomes |-> outcomes]

\* backupLv2: the loop over the configured directories; an error thrown by
\* copyDirectoryRecursive for a directory is caught and recorded for that
\* directory, and the run returns its result
SyncLv2(r) ==
    /\ run[r].pc = "sync"
    /\ run[r].kind = "backupLv2"
    /\ \E outcomes \in [1 .. Len(Lv2Directories) -> DirOutcomes] :
          run' = [run EXCEPT ![r] =
                    LeaveTry([@ EXCEPT !.copied = TRUE,
                                       !.report = Lv2Result(run[r], outcomes)],
                             "success", NoErr)]
    /\ UNCHANGED <<jobs, now>>
    /\ UNCHANGED smbVars
    /\ UNCHANGED collVars

\* backupLv1: listFiles(sourceClient, '') and the loop over the source files
\* (the errors of a file are caught; an error of listFiles is thrown)
SyncLv1(r) ==
    /\ run[r].pc = "sync"
    /\ run[r].kind = "backupLv1"
    /\ \E listed \in BOOLEAN :
          run' = [run EXCEPT ![r] =
                    IF listed
                    THEN LeaveLv1([@ EXCEPT !.copied = TRUE], "success", NoErr)
                    ELSE Throw(@, ErrListFiles)]
    /\ UNCHANGED <<jobs, now>>
    /\ UNCHANGED smbVars
    /\ UNCHANGED collVars

\* finally { await releaseLock(lockedIp, 'backupLv2') }; the run is over
FinRelease(r) ==
    /\ run[r].pc = "finRelease"
    /\ jobs' \in ReleaseOutcomes(run[r].name)
    /\ run' = [run EXCEPT ![r] =
                 [@ EXCEPT !.pc = "done", !.releaseCalls = @ + 1,
                           !.wroteLock = TRUE, !.lockedIp = NoIp,
                           !.usedIp = NoIp, !.report = [kind |-> "none"]]]
    /\ UNCHANGED now
    /\ UNCHANGED smbVars
    /\ UNCHANGED collVars

\* the process executing the run dies
Crash(r) ==
    /\ run[r].pc \in ActivePcs
    /\ run' = [run EXCEPT ![r] =
                 [IdleRun EXCEPT !.pc = "crashed", !.kind = run[r].kind,
                                 !.name = run[r].name,
                                 !.myJob = run[r].myJob,
                                 !.reclaimed = run[r].reclaimed]]
    /\ UNCHANGED <<jobs, now>>
    /\ UNCHANGED smbVars
    /\ UNCHANGED collVars

Next ==
    \/ Tick
    \/ \E r \in Runs : StartLv2(r)
    \/ \E r \in Runs : StartLv1(r)
    \/ \E r \in Runs : AcqFind(r)
    \/ \E r \in Runs : AcqStale(r)
    \/ \E r \in Runs : AcqCount(r)
    \/ \E r \in Runs : AcqInsert(r)
    \/ \E r \in Runs : ConnectSource(r)
    \/ \E r \in Runs : ConnectTarget(r)
    \/ \E r \in Runs : SyncLv2(r)
    \/ \E r \in Runs : SyncLv1(r)
    \/ \E r \in Runs : FinRelease(r)
    \/ \E r \in Runs : Crash(r)

Spec == Init /\ [][Next]_vars

----------------------------------------------------------------------------
(* backupLv2 fired again and again by its schedule, for the properties of   *)
(* progress: the configuration is complete, a finished invocation slot is   *)
(* free again at the next firing, one process dies at most, and the sweep   *)
(* cleanupStaleLocks is run whenever it has a record to mark.               *)

\* time passes until the schedule fires again: the slots of the runs that
\* are over can be taken again (the slot of a process that died stays dead)
NextFiring ==
    /\ \E d \in {1, MaxAge} :
          /\ ClockValue(now + d)
          /\ now' = now + d
    /\ run' = [r \in Runs |-> IF run[r].pc = "done" THEN IdleRun ELSE run[r]]
    /\ UNCHANGED jobs
    /\ UNCHANGED smbVars
    /\ UNCHANGED collVars

\* backupLv2() is invoked with every required setting defined
FireLv2(r) ==
    /\ StartLv2(r)
    /\ run'[r].pc = "acqFind"

\* the process executing a run dies, once
CrashOnce(r) ==
    /\ \A q \in Runs : run[q].pc # "crashed"
    /\ Crash(r)

\* the steps of the schedule and of the runs that are not a crash
Progress ==
    \/ NextFiring
    \/ \E r \in Runs : FireLv2(r)
    \/ \E r \in Runs : AcqFind(r)
    \/ \E r \in Runs : AcqStale(r)
    \/ \E r \in Runs : AcqCount(r)
    \/ \E r \in Runs : AcqInsert(r)
    \/ \E r \in Runs : ConnectSource(r)
    \/ \E r \in Runs : ConnectTarget(r)
    \/ \E r \in Runs : SyncLv2(r)
    \/ \E r \in Runs : FinRelease(r)
    \/ CleanupStaleLocks

NextLive ==
    \/ Progress
    \/ \E r \in Runs : CrashOnce(r)

\* time passes, the schedule fires, every awaited operation of a live run
\* answers (each has a timeout) and the sweep is not put off forever
SpecLive == Init /\ [][NextLive]_vars /\ WF_vars(Progress)

----------------------------------------------------------------------------
(* lib/smb-helpers.js: connectToSynologyWithFailover, one attempt at a time *)

\* the candidate lists a caller can build from the primary and the optional
\* secondary address
MaxIps == 2
IpLists == UNION {[1 .. n -> {H1, H2}] : n \in 1 .. MaxIps}

\* what the readdir of an attempt can fail with
Causes == {"ETIMEDOUT", "ECONNREFUSED", "STATUS_LOGON_FAILURE",
           "STATUS_BAD_NETWORK_NAME"}

AttemptHostMut(ips, k) == ips[Len(ips) + 1 - k]
\* for (const ip of ips): the host of the k-th iteration
AttemptHost(ips, k) == ips[k]

LastErrorAfterMut(lastError, cause) == IF lastError = NoErr THEN cause ELSE lastError
\* catch (error) { lastError = error; continue; }
LastErrorAfter(lastError, cause) == cause

\* throw new Error(`Failed to connect to any SMB server. Last error: ...`)
AllFailedError(lastError) == [message |-> ErrAllTargetsFailed, last |-> lastError]

\* a caller calls connectToSynologyWithFailover(ips, ...)
ConnCall ==
    /\ conn.pc = "idle"
    /\ \E ips \in IpLists :
          conn' = [IdleConn EXCEPT !.pc = "attempt", !.ips = ips, !.k = 1]
    /\ UNCHANGED <<jobs, now, run, srcFs, dstFs, sync>>
    /\ UNCHANGED collVars

\* one iteration of the loop: the session to the host is opened and the share
\* root is listed; on success the function returns, on failure it goes on to
\* the next host or, after the last one, throws
ConnAttempt ==
    /\ conn.pc = "attempt"
    /\ \E res \in {"ok"} \cup Causes :
          LET ip == AttemptHost(conn.ips, conn.k)
              c == [conn EXCEPT !.attempts = Append(@, [ip |-> ip, res |-> res])]
          IN  conn' =
                 IF res = "ok"
                 THEN [c EXCEPT !.pc = "returned", !.connectedIp = ip]
                 ELSE LET e == LastErrorAfter(conn.lastError, res) IN
                      IF conn.k < Len(conn.ips)
                      THEN [c EXCEPT !.lastError = e, !.k = @ + 1]
                      ELSE [c EXCEPT !.lastError = e, !.pc = "thrown",
                                     !.error = AllFailedError(e)]
    /\ UNCHANGED <<jobs, now, run, srcFs, dstFs, sync>>
    /\ UNCHANGED collVars

NextConn ==
    \/ ConnCall
    \/ ConnAttempt

SpecConn == Init /\ [][NextConn]_vars

----------------------------------------------------------------------------
(* lib/smb-helpers.js: copyDirectoryRecursive                              *)
(* One action per directory entered and per item of a directory; the call  *)
(* stack of the recursion is sync.stack (the innermost call is last).      *)

\* the source tree before the first synchronization
SourceTree ==
    [p \in Paths |-> IF p \in Dirs THEN Dir ELSE File(1, 0)]

InitSync ==
    /\ jobs = <<>>
    /\ now = 0
    /\ run = [r \in Runs |-> IdleRun]
    /\ conn = IdleConn
    /\ srcFs = SourceTree
    /\ dstFs = EmptyFs
    /\ sync = IdleSync
    /\ status = IdleStatus
    /\ errs = IdleErrs

\* listFiles(client, path): the entries of the directory that exist
listFiles(fs, dir) == SelectSeq(Children[dir], LAMBDA p : fs[p].kind # "none")

\* the operations on one file that can fail
FileFaults == {"none", "exists", "statSource", "statTarget", "read", "write"}

\* the operations on entering a directory that can fail
DirFaults == {"none", "mkdir", "list"}

NewerMut(sourceMtime, targetMtime) == sourceMtime >= targetMtime
\* sourceStats.mtime > targetStats.mtime
Newer(sourceMtime, targetMtime) == sourceMtime > targetMtime

SkipCountMut(skippedFiles) == skippedFiles
\* skippedFiles++
SkipCount(skippedFiles) == skippedFiles + 1

FoldBytesMut(totalBytes, childBytes) == totalBytes
\* totalBytes += stats.totalBytes
FoldBytes(totalBytes, childBytes) == totalBytes + childBytes

ItemErrorCaughtMut(fault) == fault # "write"
\* try { ... } catch (error) { /* Continue with next item */ } around an item
ItemErrorCaught(fault) == TRUE

WrittenFileMut(ver) == File(1, now)
\* targetClient.writeFile(targetFilePath, content): the file on the target
\* share has the content read and the time of the write
WrittenFile(ver) == File(ver, now)

NewFrame(dir) ==
    [dir |-> dir, pc |-> "enter", items |-> <<>>,
     copiedFiles |-> 0, skippedFiles |-> 0, totalBytes |-> 0]

\* return { copiedFiles, skippedFiles, totalBytes }
FrameStats(f) ==
    [copiedFiles |-> f.copiedFiles, skippedFiles |-> f.skippedFiles,
     totalBytes |-> f.totalBytes]

\* the caller adds the stats of the recursive call to its own
Fold(f, stats) ==
    [f EXCEPT !.copiedFiles = @ + stats.copiedFiles,
              !.skippedFiles = @ + stats.skippedFiles,
              !.totalBytes = FoldBytes(@, stats.totalBytes)]

\* every call whose loop is over returns to its caller, which goes on with
\* its own loop; the outermost call returns the stats of the whole tree
RECURSIVE Settle(_)
Settle(sy) ==
    LET n == Len(sy.stack) IN
    IF n = 0 THEN sy
    ELSE LET top == sy.stack[n] IN
         IF top.pc # "items" \/ top.items # <<>> THEN sy
         ELSE IF n = 1
              THEN [sy EXCEPT !.pc = "returned", !.stack = <<>>,
                              !.stats = FrameStats(top), !.threw = FALSE]
              ELSE Settle([sy EXCEPT !.stack =
                              Append(SubSeq(sy.stack, 1, n - 2),
                                     Fold(sy.stack[n - 1], FrameStats(top)))])

\* the innermost call throws: the catch around the item of its caller
\* swallows the error and the caller goes on; the outermost call throws to
\* the caller of copyDirectoryRecursive
ThrowFrom(sy) ==
    LET n == Len(sy.stack) IN
    IF n = 1
    THEN [sy EXCEPT !.pc = "returned", !.stack = <<>>, !.stats = ZeroStats,
                    !.threw = TRUE]
    ELSE Settle([sy EXCEPT !.stack = SubSeq(sy.stack, 1, n - 1)])

\* the body of the loop for the file at path p, in the frame f, when the
\* operation `fault` fails if it is made
ProcessFile(f, p, fault) ==
    LET existed == dstFs[p].kind # "none"
        exists == IF fault = "exists" THEN FALSE ELSE existed
        statsOk == fault \notin {"statSource", "statTarget"}
        shouldCopy ==
            IF ~exists THEN TRUE
            ELSE IF statsOk THEN Newer(srcFs[p].mtime, dstFs[p].mtime)
                 ELSE FALSE
        copyFails == shouldCopy /\ fault \in {"read", "write"}
        fileSize == ContentLength(p, srcFs[p].ver)
        copied == shouldCopy /\ ~copyFails
    IN  [frame |-> IF ~shouldCopy THEN [f EXCEPT !.skippedFiles = SkipCount(@)]
                   ELSE IF copyFails THEN f
                   ELSE [f EXCEPT !.copiedFiles = @ + 1,
                                  !.totalBytes = @ + fileSize],
         dst |-> IF copied THEN [dstFs EXCEPT ![p] = WrittenFile(srcFs[p].ver)]
                 ELSE dstFs,
         threw |-> copyFails,
         failed |-> \/ fault = "exists" /\ existed
                    \/ exists /\ ~statsOk
                    \/ copyFails,
         entry |-> [outcome |-> IF ~shouldCopy THEN "skipped"
                                ELSE IF copyFails THEN "failed" ELSE "copied",
                    probed |-> ~(fault = "exists" /\ existed)
                               /\ ~(exists /\ ~statsOk),
                    existed |-> existed,
                    statFailed |-> exists /\ ~statsOk,
                    srcVer |-> srcFs[p].ver,
                    srcMtime |-> srcFs[p].mtime,
                    dstMtime |-> IF existed THEN dstFs[p].mtime ELSE NoTime,
                    length |-> fileSize,
                    written |-> IF copied THEN WrittenFile(srcFs[p].ver)
                                ELSE NoFile]]

\* a caller calls copyDirectoryRecursive(sourceClient, targetClient,
\* sourcePath, targetPath)
SyncCall ==
    /\ sync.pc \in {"idle", "returned"}
    /\ sync.calls < MaxCalls
    /\ sync' = [sync EXCEPT !.pc = "running", !.stack = <<NewFrame(Root)>>,
                            !.stats = ZeroStats, !.threw = FALSE,
                            !.calls = @ + 1,
                            !.log = [p \in Files |-> NoEntry],
                            !.prev = sync.stats,
                            !.prevFaulty = sync.faulty \/ sync.threw,
                            !.prevDirty = sync.dirty,
                            !.faulty = FALSE, !.dirFailed = FALSE,
                            !.dirty = FALSE]
    /\ UNCHANGED <<jobs, now, run, conn, srcFs, dstFs>>
    /\ UNCHANGED collVars

\* the innermost call begins: ensureDirectory(targetClient, targetPath) and
\* listFiles(sourceClient, sourcePath)
SyncEnter ==
    /\ sync.pc = "running"
    /\ LET n == Len(sync.stack)
           top == sync.stack[n]
       IN  /\ top.pc = "enter"
           /\ \E fault \in DirFaults :
                 LET mkdirFails == fault = "mkdir" /\ dstFs[top.dir].kind = "none"
                     failed == [sync EXCEPT !.faulty = TRUE, !.dirFailed = TRUE]
                 IN  IF mkdirFails
                     THEN /\ dstFs' = dstFs
                          /\ sync' = ThrowFrom(failed)
                     ELSE /\ dstFs' = [dstFs EXCEPT ![top.dir] = Dir]
                          /\ sync' =
                                IF fault = "list"
                                THEN ThrowFrom(failed)
                                ELSE Settle([sync EXCEPT !.stack[n] =
                                        [top EXCEPT !.pc = "items",
                                            !.items = listFiles(srcFs, top.dir)]])
    /\ UNCHANGED <<jobs, now, run, conn, srcFs>>
    /\ UNCHANGED collVars

\* one iteration of the loop of the innermost call: a directory is entered
\* by a recursive call, a file is compared and copied or skipped
SyncItem ==
    /\ sync.pc = "running"
    /\ LET n == Len(sync.stack)
           top == sync.stack[n]
       IN  /\ top.pc = "items"
           /\ top.items # <<>>
           /\ LET item == Head(top.items)
                  f == [top EXCEPT !.items = Tail(@)]
              IN  IF srcFs[item].kind = "dir"
                  THEN /\ sync' = [sync EXCEPT !.stack =
                                     Append(SubSeq(sync.stack, 1, n - 1) \o <<f>>,
                                            NewFrame(item))]
                       /\ dstFs' = dstFs
                  ELSE \E fault \in FileFaults :
                          LET r == ProcessFile(f, item, fault)
                              sy == [sync EXCEPT !.stack[n] = r.frame,
                                                 !.log[item] = r.entry,
                                                 !.faulty = @ \/ r.failed]
                          IN  /\ dstFs' = r.dst
                              /\ sync' = IF r.threw /\ ~ItemErrorCaught(fault)
                                         THEN ThrowFrom(sy)
                                         ELSE Settle(sy)
    /\ UNCHANGED <<jobs, now, run, conn, srcFs>>
    /\ UNCHANGED collVars

\* a third party replaces the content of a source file; the new file has a
\* modification time later than the old one and not in the future
SyncModify ==
    /\ sync.mods < MaxMods
    /\ \E p \in Files :
          \E m \in (srcFs[p].mtime + 1) .. now :
             srcFs' = [srcFs EXCEPT ![p] = File(@.ver + 1, m)]
    /\ sync' = [sync EXCEPT !.mods = @ + 1, !.dirty = TRUE]
    /\ UNCHANGED <<jobs, now, run, conn, dstFs>>
    /\ UNCHANGED collVars

\* time passes on the shares
SyncTick ==
    /\ now < MaxTime
    /\ now' = now + 1
    /\ UNCHANGED <<jobs, run, conn, srcFs, dstFs, sync>>
    /\ UNCHANGED collVars

NextSync ==
    \/ SyncCall
    \/ SyncEnter
    \/ SyncItem
    \/ SyncModify
    \/ SyncTick

SpecSync == InitSync /\ [][NextSync]_vars

----------------------------------------------------------------------------
(* lib/status-collector.js: the executions of the cron jobs and the daily  *)
(* summary of them                                                         *)

\* time passes between two steps of a collector
CollectorTick ==
    /\ now < MaxTime
    /\ now' = now + 1
    /\ UNCHANGED <<jobs, run>>
    /\ UNCHANGED smbVars
    /\ UNCHANGED collVars

\* the ids of the executions of a list
Ids(list) == {list[i].id : i \in 1 .. Len(list)}

\* this.jobExecutions.push(execution) and the cap on the history. The
\* timestamp is new Date().toISOString(), a millisecond count that
\* new Date(exec.timestamp) reads back unchanged
PushExecution(st) ==
    LET execution == [id |-> status.added + 1, status |-> st,
                      timestamp |-> now]
        pushed == Append(status.jobExecutions, execution)
    IN  IF Len(pushed) > maxExecutions THEN Tail(pushed) ELSE pushed

\* addSuccess(jobName, result)
AddSuccess ==
    /\ status.added < MaxAdds
    /\ status' = [status EXCEPT !.jobExecutions = PushExecution("success"),
                                !.added = @ + 1]
    /\ UNCHANGED <<jobs, now, run, errs>>
    /\ UNCHANGED smbVars

\* addFailure(jobName, error, context)
AddFailure ==
    /\ status.added < MaxAdds
    /\ status' = [status EXCEPT !.jobExecutions = PushExecution("failure"),
                                !.added = @ + 1]
    /\ UNCHANGED <<jobs, now, run, errs>>
    /\ UNCHANGED smbVars

\* getExecutionsSince(timestamp)
GetExecutionsSince(timestamp) ==
    LET list == status.jobExecutions IN
    IF timestamp = NoTime THEN list
    ELSE IF Len(list) > 0 /\ timestamp < list[1].timestamp THEN list
    ELSE SelectSeq(list, LAMBDA exec : exec.timestamp > timestamp)

\* sendStatusSummary up to its await of the mailer: the executions of the
\* summary are chosen; without ADMIN_EMAIL the call returns
SendStatusSummary(s) ==
    /\ status.sends[s].pc = "idle"
    /\ \E adminEmail \in BOOLEAN :
        LET filteredExecutions ==
                GetExecutionsSince(status.lastSummarySentAt)
        IN  status' = [status EXCEPT !.sends[s] =
                [pc |-> IF adminEmail THEN "posting" ELSE "returned",
                 filteredExecutions |-> filteredExecutions]]
    /\ UNCHANGED <<jobs, now, run, errs>>
    /\ UNCHANGED smbVars

\* sendStatusSummary after the await: the mailer accepted the summary and
\* lastSummarySentAt becomes the time of this moment, or the post threw and
\* the catch only logs
StatusMailerResponds(s) ==
    /\ status.sends[s].pc = "posting"
    /\ \E ok \in BOOLEAN :
        status' = [status EXCEPT
            !.sends[s].pc = "returned",
            !.lastSummarySentAt = IF ok THEN now ELSE @,
            !.delivered = IF ok
                          THEN @ \cup Ids(status.sends[s].filteredExecutions)
                          ELSE @]
    /\ UNCHANGED <<jobs, now, run, errs>>
    /\ UNCHANGED smbVars

NextStatus ==
    \/ AddSuccess
    \/ AddFailure
    \/ \E s \in Sends : SendStatusSummary(s)
    \/ \E s \in Sends : StatusMailerResponds(s)
    \/ CollectorTick

SpecStatus == Init /\ [][NextStatus]_vars

----------------------------------------------------------------------------
(* lib/error-collector.js: the errors of the cron jobs and the hourly      *)
(* notification of them                                                    *)

\* the collector after no call of addError since the last notification,
\* after maxErrors - 1 calls, or after maxErrors calls or more
InitErrors ==
    /\ jobs = <<>>
    /\ now = 0
    /\ run = [r \in Runs |-> IdleRun]
    /\ conn = IdleConn
    /\ srcFs = EmptyFs
    /\ dstFs = EmptyFs
    /\ sync = IdleSync
    /\ status = IdleStatus
    /\ \E n \in {0, maxErrors - 1, maxErrors} :
        errs = [IdleErrs EXCEPT !.errors = n]

\* addError(jobName, error, context): push, then shift above the cap
AddError ==
    /\ errs.added < MaxAdds
    /\ LET pushed == errs.errors + 1
       IN  errs' = [errs EXCEPT
               !.errors = IF pushed > maxErrors THEN pushed - 1 ELSE pushed,
               !.added = @ + 1]
    /\ UNCHANGED <<jobs, now, run, status>>
    /\ UNCHANGED smbVars

\* sendBatchNotification up to its await of the mailer: getAndClearErrors
\* takes the errors; with none, or without ADMIN_EMAIL, the call returns
SendBatchNotification(s) ==
    /\ errs.sends[s].pc = "idle"
    /\ \E adminEmail \in BOOLEAN :
        LET errors == errs.errors
        IN  errs' = [errs EXCEPT
                !.errors = 0,
                !.sends[s] =
                    [pc |-> IF errors = 0 \/ ~adminEmail
                            THEN "returned" ELSE "posting",
                     errors |-> errors]]
    /\ UNCHANGED <<jobs, now, run, status>>
    /\ UNCHANGED smbVars

\* sendBatchNotification after the await: the mailer accepted the report,
\* or the post threw and the catch pushes every taken error back
BatchMailerResponds(s) ==
    /\ errs.sends[s].pc = "posting"
    /\ \E ok \in BOOLEAN :
        errs' = [errs EXCEPT
            !.sends[s].pc = "returned",
            !.errors = IF ok THEN @ ELSE @ + errs.sends[s].errors]
    /\ UNCHANGED <<jobs, now, run, status>>
    /\ UNCHANGED smbVars

NextErrors ==
    \/ AddError
    \/ \E s \in Sends : SendBatchNotification(s)
    \/ \E s \in Sends : BatchMailerResponds(s)

SpecErrors == InitErrors /\ [][NextErrors]_vars

----------------------------------------------------------------------------
(* Properties                                                              *)

PastLockPcs == {"connectSource", "connectTarget", "sync"}

ConfigErrors == {ErrCfgSynology, ErrCfgSource, ErrCfgTarget}

\* C1: for every backup name, two runs of that backup are never both past
\* the lock step (connecting or syncing) at the same time.
C1_NoOverlappingRuns ==
    \A r1, r2 \in Runs :
        (/\ r1 # r2
         /\ run[r1].name = run[r2].name
         /\ run[r1].pc \in PastLockPcs)
        => run[r2].pc \notin PastLockPcs

\* C2: of two acquireLock calls for the same name whose records have not
\* been released, at most one has returned a host.
C2_AtMostOneAcquires ==
    \A r1, r2 \in Runs :
        (/\ r1 # r2
         /\ run[r1].kind = "acquire" /\ run[r2].kind = "acquire"
         /\ run[r1].name = run[r2].name
         /\ run[r1].result = "host"
         /\ jobs[run[r1].myJob].status = "running")
        => ~(run[r2].result = "host" /\ jobs[run[r2].myJob].status = "running")

\* C3: the collection never holds two records with status running for the
\* same backupName.
C3_AtMostOneRunning ==
    \A name \in BackupNames : Cardinality(RunningJobs(name)) <= 1

\* C4: when the most recent record of the name is running and not older than
\* the threshold, acquireLock returns null, inserts nothing and changes no
\* record.
C4_BusyAcquireReturnsNull ==
    [][\A r \in Runs :
          (/\ run[r].pc = "acqFind"
           /\ run'[r] # run[r]
           /\ LastJobs(run[r].name) # {}
           /\ \A j \in LastJobs(run[r].name) :
                 /\ jobs[j].status = "running"
                 /\ now - jobs[j].startedAt <= MaxAge)
          => (/\ run'[r].pc = "returned"
              /\ run'[r].result = "null"
              /\ run'[r].lockedIp = NoIp
              /\ ~run'[r].wroteLock
              /\ jobs' = jobs)]_vars

\* an acquireLock call returned null while the most recent record of its name
\* is running and exactly as old as the threshold
C4_Witness ==
    \E r \in Runs :
        /\ run[r].pc = "returned"
        /\ run[r].result = "null"
        /\ \E j \in LastJobs(run[r].name) :
              jobs[j].status = "running" /\ now - jobs[j].startedAt = MaxAge

\* C5: when the most recent record of the name is running and older than the
\* threshold, acquireLock goes on to mark it, and when it returns it returns
\* a host, the old record is failed with the staleness error and a new
\* running record of the name has been inserted.
C5_StaleReclaim ==
    [][\A r \in Runs :
          /\ (/\ run[r].pc = "acqFind"
              /\ run'[r] # run[r]
              /\ LastJobs(run[r].name) # {}
              /\ \A j \in LastJobs(run[r].name) :
                    /\ jobs[j].status = "running"
                    /\ now - jobs[j].startedAt > MaxAge)
             => (/\ run'[r].pc = "acqStale"
                 /\ run'[r].jobStatus = "running"
                 /\ run'[r].job \in LastJobs(run[r].name))
          /\ (/\ run[r].pc = "acqInsert"
              /\ run'[r] # run[r]
              /\ run[r].jobStatus = "running")
             => (/\ run'[r].lockedIp \in {H1, H2}
                 /\ run'[r].pc = "returned"
                 /\ run'[r].result = "host"
                 /\ jobs'[run[r].job].status = "failed"
                 /\ jobs'[run[r].job].error = ErrStaleNoExec
                 /\ Len(jobs') = Len(jobs) + 1
                 /\ jobs'[Len(jobs')].status = "running"
                 /\ jobs'[Len(jobs')].backupName = run[r].name
                 /\ jobs'[Len(jobs')].ip = run'[r].lockedIp)]_vars

\* an acquireLock call that found a stale running record has returned a host;
\* the old record is failed and the record it inserted is running
C5_Witness ==
    \E r \in Runs :
        /\ run[r].result = "host"
        /\ run[r].reclaimed # NoJob
        /\ jobs[run[r].reclaimed].status = "failed"
        /\ jobs[run[r].reclaimed].error = ErrStaleNoExec
        /\ jobs[run[r].myJob].status = "running"
        /\ jobs[run[r].myJob].startedAt - jobs[run[r].reclaimed].startedAt > MaxAge

\* C6: a record whose status is completed or failed is never changed again.
C6_FinalizedOnce ==
    [][\A j \in JobIds :
          jobs[j].status \in {"completed", "failed"} => jobs'[j] = jobs[j]]_vars

\* C7: when a backupLv2 run that acquired the lock has ended with a thrown
\* error, its record is failed and carries the error message.
C7_FatalErrorMarksFailed ==
    \A r \in Runs :
        (/\ run[r].kind = "backupLv2"
         /\ run[r].pc = "done"
         /\ run[r].result = "error"
         /\ run[r].myJob # NoJob)
        => (/\ jobs[run[r].myJob].status = "failed"
            /\ jobs[run[r].myJob].error = run[r].error)

\* C8: a finished backupLv2 run that acquired the lock has made exactly one
\* finalizing call, releaseLock after a normal return and markJobAsFailed
\* after a thrown error; a run that did not acquire it has made none.
C8_ExactlyOneFinalizer ==
    \A r \in Runs :
        (run[r].kind = "backupLv2" /\ run[r].pc = "done")
        => IF run[r].myJob # NoJob
           THEN /\ run[r].result = "success"
                   => (run[r].releaseCalls = 1 /\ run[r].failCalls = 0)
                /\ run[r].result = "error"
                   => (run[r].releaseCalls = 0 /\ run[r].failCalls = 1)
           ELSE run[r].releaseCalls = 0 /\ run[r].failCalls = 0

\* C9: a run whose acquireLock returned null is over with the skipped result;
\* it has opened no session, copied nothing, written no lock record and made
\* no finalizing call.
C9_SkippedTouchesNothing ==
    \A r \in Runs :
        run[r].result = "skipped"
        => (/\ run[r].pc = "done"
            /\ run[r].sessions = 0
            /\ ~run[r].copied
            /\ ~run[r].wroteLock
            /\ run[r].myJob = NoJob
            /\ run[r].releaseCalls = 0
            /\ run[r].failCalls = 0)

\* a run was skipped while another run of the backup is past the lock step
\* and its record is still running
C9_Witness ==
    \E r, q \in Runs :
        /\ run[r].result = "skipped"
        /\ run[r].pc = "done"
        /\ run[q].name = run[r].name
        /\ run[q].pc \in PastLockPcs
        /\ jobs[run[q].myJob].status = "running"

\* C10: a run started with a required setting missing is over with a
\* configuration error; it has neither read nor written the lock collection
\* and has opened no session.
C10_ConfigErrorFirst ==
    \A r \in Runs :
        run[r].cfgMissing
        => (/\ run[r].pc = "done"
            /\ run[r].result = "error"
            /\ run[r].error \in ConfigErrors
            /\ ~run[r].touchedLock
            /\ ~run[r].wroteLock
            /\ run[r].myJob = NoJob
            /\ run[r].sessions = 0
            /\ ~run[r].copied)

\* runs of both backups were started with a required setting missing and
\* have failed
C10_Witness ==
    \E r, q \in Runs :
        /\ run[r].kind = "backupLv2" /\ run[q].kind = "backupLv1"
        /\ run[r].cfgMissing /\ run[q].cfgMissing
        /\ run[r].pc = "done" /\ run[q].pc = "done"
        /\ run[r].error \in ConfigErrors /\ run[q].error \in ConfigErrors

\* C11: the hosts are attempted strictly in list order, one at a time, no
\* host is attempted after a successful one, and the call returns the host
\* of the first attempt that succeeded.
C11_FailoverInOrder ==
    /\ Len(conn.attempts) <= Len(conn.ips)
    /\ \A i \in 1 .. Len(conn.attempts) :
          /\ conn.attempts[i].ip = conn.ips[i]
          /\ i < Len(conn.attempts) => conn.attempts[i].res # "ok"
    /\ conn.pc = "attempt" => conn.k = Len(conn.attempts) + 1
    /\ conn.pc = "returned"
          => (/\ conn.attempts # <<>>
              /\ conn.attempts[Len(conn.attempts)].res = "ok"
              /\ conn.connectedIp = conn.ips[Len(conn.attempts)])
    /\ (conn.attempts # <<>> /\ conn.attempts[Len(conn.attempts)].res = "ok")
          => conn.pc = "returned"

\* with the candidates [H1, H2], H1 failed and H2 answered: the call has
\* returned H2
C11_Witness ==
    /\ conn.pc = "returned"
    /\ conn.ips = <<H1, H2>>
    /\ conn.attempts[1].res # "ok"
    /\ conn.connectedIp = H2

\* C12: when every candidate has failed, each candidate was attempted exactly
\* once, the call throws one error that carries the cause of the last
\* attempt, and it returns no session.
C12_AllFailedThrowsLast ==
    /\ (/\ Len(conn.attempts) = Len(conn.ips)
         /\ conn.attempts # <<>>
         /\ \A i \in 1 .. Len(conn.attempts) : conn.attempts[i].res # "ok")
          => conn.pc = "thrown"
    /\ conn.pc = "thrown"
          => (/\ Len(conn.attempts) = Len(conn.ips)
              /\ \A i \in 1 .. Len(conn.ips) :
                    /\ conn.attempts[i].ip = conn.ips[i]
                    /\ conn.attempts[i].res \in Causes
              /\ conn.error.message = ErrAllTargetsFailed
              /\ conn.error.last = conn.attempts[Len(conn.attempts)].res
              /\ conn.connectedIp = NoIp)

\* both candidates failed, with different causes, and the call has thrown
C12_Witness ==
    /\ conn.pc = "thrown"
    /\ conn.ips = <<H1, H2>>
    /\ conn.attempts[1].res # conn.attempts[2].res

\* the files that the current call has processed with the given outcome
FilesWith(outcome) == {p \in Files : sync.log[p].outcome = outcome}

\* the sum of the content lengths recorded for a set of files
RECURSIVE SumLengths(_)
SumLengths(S) ==
    IF S = {} THEN 0
    ELSE LET p == CHOOSE q \in S : TRUE
         IN  sync.log[p].length + SumLengths(S \ {p})

\* the counters of a call in progress, over all the frames of its stack,
\* or the stats it returned
RECURSIVE StackCount(_, _)
StackCount(stack, field) ==
    IF stack = <<>> THEN 0
    ELSE Head(stack)[field] + StackCount(Tail(stack), field)

Counted(sy, field) ==
    IF sy.pc = "returned" THEN sy.stats[field] ELSE StackCount(sy.stack, field)

C14_PartialFailureIsolated ==
    (sync.pc = "returned" /\ ~sync.dirFailed)
    => (/\ ~sync.threw
        /\ \A p \in Files : sync.log[p].outcome # "none"
        /\ sync.stats.copiedFiles + sync.stats.skippedFiles
              = Cardinality(Files) - Cardinality(FilesWith("failed")))

\* a call has returned in which two of the three files failed to be copied
\* and the third was counted
C14_Witness ==
    /\ sync.pc = "returned"
    /\ ~sync.dirFailed
    /\ Cardinality(FilesWith("failed")) = 2
    /\ sync.stats.copiedFiles + sync.stats.skippedFiles = 1

\* C15: the totalBytes a call returns is the sum of the sizes of the files it
\* copied, at every depth; when no operation failed these are exactly the
\* files whose destination was absent (new) or older than the source (stale).
C15_ByteAccounting ==
    (sync.pc = "returned" /\ ~sync.threw)
    => (/\ sync.stats.totalBytes = SumLengths(FilesWith("copied"))
        /\ ~sync.faulty
              => sync.stats.totalBytes =
                    SumLengths({p \in Files :
                        /\ sync.log[p].outcome # "none"
                        /\ \/ ~sync.log[p].existed
                           \/ sync.log[p].dstMtime < sync.log[p].srcMtime}))

\* a call without failures has returned that copied again only the stale
\* file c of the innermost directory
C15_Witness ==
    /\ sync.pc = "returned"
    /\ ~sync.faulty
    /\ sync.log["d/e/c"].outcome = "copied"
    /\ sync.log["d/e/c"].existed
    /\ sync.stats.copiedFiles = 1
    /\ sync.stats.totalBytes = ContentLength("d/e/c", 2)

\* C16: in the step that processes a file (its exists and stat probes having
\* answered), the file is copied, whole, if and only if the destination file
\* is absent or strictly older than the source file; otherwise it is counted
\* as skipped and the destination file is not written.
C16_CopyIffNewOrStale ==
    [][\A p \in Files :
          (/\ sync.log[p].outcome = "none"
           /\ sync'.log[p].outcome # "none"
           /\ sync'.log[p].probed)
          => LET absent == dstFs[p].kind = "none"
                 older == ~absent /\ dstFs[p].mtime < srcFs[p].mtime
             IN  IF absent \/ older
                 THEN /\ sync'.log[p].outcome \in {"copied", "failed"}
                      /\ sync'.log[p].outcome = "copied"
                            => (/\ dstFs'[p].kind = "file"
                                /\ dstFs'[p].ver = srcFs[p].ver
                                /\ Counted(sync', "copiedFiles")
                                      = Counted(sync, "copiedFiles") + 1)
                      /\ Counted(sync', "skippedFiles")
                            = Counted(sync, "skippedFiles")
                 ELSE /\ sync'.log[p].outcome = "skipped"
                      /\ dstFs'[p] = dstFs[p]
                      /\ Counted(sync', "skippedFiles")
                            = Counted(sync, "skippedFiles") + 1
                      /\ Counted(sync', "copiedFiles")
                            = Counted(sync, "copiedFiles")]_vars

\* one call has skipped a file whose destination is exactly as old as the
\* source and has copied a file whose destination was older
C16_Witness ==
    \E p, q \in Files :
        /\ sync.log[p].outcome = "skipped"
        /\ sync.log[p].probed
        /\ sync.log[p].dstMtime = sync.log[p].srcMtime
        /\ sync.log[q].outcome = "copied"
        /\ sync.log[q].existed
        /\ sync.log[q].dstMtime < sync.log[q].srcMtime

\* C17: when a call has returned, without a failed operation and with the
\* source not modified since it began, every source file has been brought to
\* the destination with its current content: an update made to a file after
\* it was copied is copied by the next call.
C17_UpdateIsCopiedAgain ==
    (/\ sync.pc = "returned"
     /\ ~sync.threw /\ ~sync.faulty /\ ~sync.dirty)
    => \A p \in Files :
          /\ dstFs[p].kind = "file"
          /\ dstFs[p].ver = srcFs[p].ver

\* C18: the destination file written by a copy has the modification time of
\* the source file.
C18_MtimePreserved ==
    \A p \in Files :
        sync.log[p].outcome = "copied"
        => sync.log[p].written.mtime = sync.log[p].srcMtime

\* C19: the host acquireLock selects is a candidate with no more running
\* records, of any backup name, than every other candidate and with fewer
\* than every candidate before it in the list; it is the host acquireLock
\* records in the inserted record and returns.
C19_LeastBusySelected ==
    [][\A r \in Runs :
          /\ (run[r].pc = "acqCount" /\ run'[r].pc = "acqInsert")
             => \E k \in 1 .. Len(run[r].ips) :
                   /\ run'[r].selectedIp = run[r].ips[k]
                   /\ \A j \in 1 .. Len(run[r].ips) :
                         LET n(ip) == Cardinality({i \in JobIds :
                                         jobs[i].status = "running"
                                         /\ jobs[i].ip = ip})
                         IN  /\ n(run[r].ips[k]) <= n(run[r].ips[j])
                             /\ j < k => n(run[r].ips[k]) < n(run[r].ips[j])
          /\ (run[r].pc = "acqInsert" /\ run'[r].pc # "acqInsert")
             => (/\ run'[r].lockedIp = run[r].selectedIp
                 /\ Len(jobs') = Len(jobs) + 1
                 /\ jobs'[Len(jobs')].ip = run[r].selectedIp
                 /\ jobs'[Len(jobs')].status = "running")]_vars

\* acquireLock has returned the second candidate while a record of the
\* other backup name is running on the first
C19_Witness ==
    \E r \in Runs :
        /\ run[r].pc = "returned"
        /\ run[r].lockedIp = H2
        /\ jobs[run[r].myJob].ip = H2
        /\ \E j \in JobIds :
              /\ jobs[j].backupName # run[r].name
              /\ jobs[j].status = "running"
              /\ jobs[j].ip = H1

\* C20: a backupLv2 run that is synchronizing is connected to the host that
\* acquireLock returned and recorded for it, if that host answered when the
\* run connected.
C20_ConnectsToSelectedHost ==
    \A r \in Runs :
        (/\ run[r].kind = "backupLv2"
         /\ run[r].pc = "sync"
         /\ run[r].lockedUp)
        => (/\ run[r].usedIp = run[r].lockedIp
            /\ run[r].usedIp = jobs[run[r].myJob].ip)

\* the records of a name that are running and not older than the threshold
FreshRunning(name) ==
    {j \in JobIds : /\ jobs[j].backupName = name
                    /\ jobs[j].status = "running"
                    /\ now - jobs[j].startedAt <= MaxAge}

\* C21: acquireLock for a name returns null only when a record of that same
\* name is running and not stale; when there is none, its find step goes on
\* to the selection (or to the stale update) whatever the records of the
\* other names are, so that runs of different names hold locks together.
C21_OtherNameNeverBlocks ==
    [][\A r \in Runs :
          (/\ run[r].pc = "acqFind"
           /\ run'[r] # run[r]
           /\ FreshRunning(run[r].name) = {})
          => (/\ run'[r].pc \in {"acqCount", "acqStale"}
              /\ run'[r].result # "null")]_vars

\* acquireLock calls for the two names have both returned H1 and both
\* records are running, the second inserted while the first was running
C21_Witness ==
    \E r, q \in Runs :
        /\ run[r].name = "backupLv1" /\ run[q].name = "backupLv2"
        /\ run[r].result = "host" /\ run[q].result = "host"
        /\ run[r].lockedIp = H1 /\ run[q].lockedIp = H1
        /\ jobs[run[r].myJob].status = "running"
        /\ jobs[run[q].myJob].status = "running"
        /\ now - jobs[run[r].myJob].startedAt <= MaxAge
        /\ now - jobs[run[q].myJob].startedAt <= MaxAge

\* C22: the step of cleanupStaleLocks (the only writer of the maximum-runtime
\* error) sets to failed, with that error and the current time, exactly the
\* records that are running and older than the threshold; every other record
\* is left as it is and the collection keeps its length.
C22_CleanupExactlyStale ==
    [][(\E j \in JobIds :
           /\ jobs[j].error # ErrStaleMaxRuntime
           /\ Len(jobs') >= j
           /\ jobs'[j].error = ErrStaleMaxRuntime)
       => (/\ Len(jobs') = Len(jobs)
           /\ \A j \in JobIds :
                 IF jobs[j].status = "running" /\ now - jobs[j].startedAt > MaxAge
                 THEN jobs'[j] = [jobs[j] EXCEPT !.status = "failed",
                                                !.completedAt = now,
                                                !.error = ErrStaleMaxRuntime]
                 ELSE jobs'[j] = jobs[j])]_vars

\* cleanupStaleLocks has failed a record older than the threshold and has
\* left alone a running record that was younger when it ran
C22_Witness ==
    \E i, j \in JobIds :
        /\ jobs[i].status = "failed"
        /\ jobs[i].error = ErrStaleMaxRuntime
        /\ jobs[i].completedAt - jobs[i].startedAt > MaxAge
        /\ jobs[j].status = "running"
        /\ jobs[j].startedAt < jobs[i].completedAt

\* the state of the run of a frame in the state machine of a run; LOCKED is
\* the moment acquireLock returns a host, after which the run connects
Phase(f) ==
    CASE f.pc \in {"idle", "acqFind", "acqStale", "acqCount", "acqInsert"}
            -> "PENDING"
      [] f.pc \in {"connectSource", "connectTarget"} -> "CONNECTING"
      [] f.pc = "sync" -> "SYNCING"
      [] f.pc \in {"finRelease", "done", "returned"}
            -> (CASE f.result = "skipped" -> "SKIPPED"
                  [] f.result = "success" -> "COMPLETED"
                  [] OTHER -> "FAILED")
      [] OTHER -> "CRASHED"

\* C23: a run (whose process does not die) changes its state only by PENDING
\* to SKIPPED, PENDING through LOCKED to CONNECTING, CONNECTING to SYNCING,
\* SYNCING to COMPLETED and SYNCING to FAILED; it leaves none of SKIPPED,
\* COMPLETED and FAILED, and it is in CONNECTING or SYNCING only after
\* acquireLock returned it a host.
C23_RunStateMachine ==
    [][\A r \in Runs :
          LET from == Phase(run[r])
              to == Phase(run'[r])
          IN  /\ (from # to /\ to # "CRASHED")
                 => \/ from = "PENDING" /\ to = "SKIPPED"
                    \/ /\ from = "PENDING" /\ to = "CONNECTING"
                       /\ run[r].pc = "acqInsert"
                       /\ run'[r].lockedIp # NoIp
                    \/ from = "CONNECTING" /\ to = "SYNCING"
                    \/ from = "SYNCING" /\ to \in {"COMPLETED", "FAILED"}
              /\ to \in {"CONNECTING", "SYNCING"} => run'[r].myJob # NoJob]_vars

\* the files of which a read, a write or a stat failed in the current call
FailedFiles ==
    {p \in Files : /\ sync.log[p].outcome # "none"
                   /\ \/ sync.log[p].outcome = "failed"
                      \/ sync.log[p].statFailed}

\* C24: a call in which every directory could be entered returns normally,
\* and a file whose read, write or stat failed is in neither of its counters
\* and not in its totalBytes: copiedFiles + skippedFiles is the number of
\* files less the failed ones, and totalBytes is the sum over the files
\* copied without a failure.
C24_FailedFileNotCounted ==
    (sync.pc = "returned" /\ ~sync.dirFailed)
    => (/\ ~sync.threw
        /\ sync.stats.copiedFiles + sync.stats.skippedFiles
              = Cardinality(Files) - Cardinality(FailedFiles)
        /\ sync.stats.totalBytes
              = SumLengths(FilesWith("copied") \ FailedFiles))

\* the most records the runs explored can insert
MaxJobs == 3 * NumRuns

\* the record j is the running record, inserted at time 0, of a run whose
\* process died
CrashedRunning(j) ==
    IF j \in JobIds
    THEN /\ jobs[j].status = "running"
         /\ jobs[j].startedAt = 0
         /\ \E r \in Runs : run[r].pc = "crashed" /\ run[r].myJob = j
    ELSE FALSE

MarkedFailed(j) == IF j \in JobIds THEN jobs[j].status = "failed" ELSE FALSE

C26_ReleaseOnlyOwnRecord ==
    [][\A r \in Runs :
          (run[r].pc = "finRelease" /\ run'[r].pc = "done")
          => \A j \in JobIds :
                j # run[r].myJob => jobs'[j] = jobs[j]]_vars

\* the sum of a counter over the directories, from the k-th on, whose
\* synchronization returned
RECURSIVE SumReturned(_, _, _)
SumReturned(outcomes, field, k) ==
    IF k > Len(outcomes) THEN 0
    ELSE (IF outcomes[k].threw THEN 0 ELSE outcomes[k].stats[field])
            + SumReturned(outcomes, field, k + 1)

\* the result of a backupLv2 run whose loop is over
C27_ResultOk(f) ==
    LET rep == f.report IN
    /\ f.pc = "finRelease"
    /\ f.result = "success"
    /\ f.error = NoErr
    /\ f.lockedIp # NoIp
    /\ Len(rep.directoryStats) = Len(Lv2Directories)
    /\ \A k \in 1 .. Len(Lv2Directories) :
          LET e == rep.directoryStats[k]
              o == rep.outcomes[k]
          IN  /\ e.dir = Lv2Directories[k]
              /\ e.totalFiles = e.copiedFiles + e.skippedFiles
              /\ IF o.threw
                 THEN /\ e.copiedFiles = 0 /\ e.skippedFiles = 0 /\ e.bytes = 0
                      /\ e.error = ErrDirectory
                 ELSE /\ e.copiedFiles = o.stats.copiedFiles
                      /\ e.skippedFiles = o.stats.skippedFiles
                      /\ e.bytes = o.stats.totalBytes
                      /\ e.error = NoErr
    /\ rep.copiedFiles = SumReturned(rep.outcomes, "copiedFiles", 1)
    /\ rep.skippedFiles = SumReturned(rep.outcomes, "skippedFiles", 1)
    /\ rep.totalBytes = SumReturned(rep.outcomes, "totalBytes", 1)
    /\ rep.totalFiles = rep.copiedFiles + rep.skippedFiles

\* C27: when the loop of a backupLv2 run is over, whichever subtrees threw,
\* every configured subtree has its entry, in order: zero counts and the
\* error message for a subtree that threw, the returned stats for the
\* others; the run has a success result whose totals are the sums over the
\* subtrees that returned, with totalFiles = copiedFiles + skippedFiles; and
\* its next step is the releaseLock of the finally clause.
C27_SubtreeFailureIsolated ==
    /\ [](\A r \in Runs : run[r].report # NoReport => C27_ResultOk(run[r]))
    /\ [][\A r \in Runs :
             (/\ run[r].report # NoReport
              /\ run'[r] # run[r]
              /\ run'[r].pc # "crashed")
             => (/\ run'[r].pc = "done"
                 /\ run'[r].result = "success"
                 /\ run'[r].releaseCalls = run[r].releaseCalls + 1
                 /\ jobs' \in ReleaseOutcomes(run[r].name))]_vars

\* the loop of a run is over in which the second subtree threw and the
\* first and the third returned
C27_Witness ==
    \E r \in Runs :
        /\ run[r].report # NoReport
        /\ ~run[r].report.outcomes[1].threw
        /\ run[r].report.outcomes[2].threw
        /\ ~run[r].report.outcomes[3].threw
        /\ run[r].report.directoryStats[2].error = ErrDirectory
        /\ run[r].report.copiedFiles = 4
        /\ run[r].report.totalBytes = 60

\* C28: when a call has returned in which no operation failed and during
\* which the source was not modified, every source directory is a directory
\* of the destination, every source file, at any depth, is a file of the
\* destination, and every file the call copied has the content of the
\* source file at the destination.
C28_MirrorComplete ==
    (/\ sync.pc = "returned"
     /\ ~sync.threw /\ ~sync.faulty /\ ~sync.dirty)
    => (/\ \A d \in Dirs : srcFs[d].kind = "dir" => dstFs[d].kind = "dir"
        /\ \A p \in Files : srcFs[p].kind = "file" => dstFs[p].kind = "file"
        /\ \A p \in FilesWith("copied") : dstFs[p].ver = srcFs[p].ver)

\* a second call without failures has returned that copied the new content
\* of the file of the innermost directory and skipped the other files
C28_Witness ==
    /\ sync.pc = "returned"
    /\ sync.calls = 2
    /\ ~sync.threw /\ ~sync.faulty /\ ~sync.dirty
    /\ sync.log["d/e/c"].outcome = "copied"
    /\ srcFs["d/e/c"].ver = 2
    /\ dstFs["d/e/c"].ver = 2
    /\ sync.log["a"].outcome = "skipped"
    /\ dstFs["d/e"].kind = "dir"

\* the executions held that no accepted summary contained
Undelivered == Ids(status.jobExecutions) \ status.delivered

\* C29: each status summary includes all executions recorded since the last
\* successfully sent summary: when a summary is put together, every
\* execution held by the collector that no accepted summary contained is
\* part of it, whether it was recorded while an earlier send was in flight
\* or before a send that failed.
C29_SummaryIncludesUndelivered ==
    [][\A s \in Sends :
        (status.sends[s].pc = "idle" /\ status'.sends[s].pc = "posting")
        => Undelivered \subseteq Ids(status'.sends[s].filteredExecutions)]_vars

\* C30: in every reachable state of the error collector the number of held
\* errors is at most maxErrors.
C30_ErrorsWithinCap == errs.errors <= maxErrors

====
